---- MODULE Spec2Model ----
(***************************************************************************)
(* State-machine model of the RMD_X8 CAN driver class (src/src/rmd_x8.py). *)
(*                                                                         *)
(* One RMD_X8 object, its can bus handle, the transport's inbound queue    *)
(* and the single calling thread.  A call to a high-level method builds    *)
(* the 8-byte message (or raises IndexError while indexing `data`), then   *)
(* runs send_cmd line by line: bus.send, time.sleep, bus.recv, return.     *)
(* Bytes are integers 0..255, sequences are 1-indexed (python data[k] is   *)
(* data[k+1] here), delays are in milliseconds (0.01 s = 10).              *)
(***************************************************************************)
EXTENDS Integers, Sequences, FiniteSets, TLC

VARIABLES
    identifier,        \* self.identifier
    ctorIdentifier,    \* the argument __init__ was called with (history)
    bus,               \* self.bus: "None" or "can0"
    pc,                \* position of the calling thread
    op,                \* method of the current (or last) call
    data,              \* its `data` argument (<<>> for methods without one)
    delay,             \* send_cmd's `delay` argument, in ms
    message,           \* the frame built for send_cmd, <<>> while not built
    received_message,  \* local of send_cmd, <<>> is python's None
    trace,             \* what the current call did to the transport and clock
    outcome,           \* how the current (or last) call ended
    rxq,               \* frames the transport holds for bus.recv()
    watched,           \* the call an observer follows (chosen up front)
    firstFrame         \* frame of the first transmit of the watched call

vars == <<identifier, ctorIdentifier, bus, pc, op, data, delay, message,
          received_message, trace, outcome, rxq, watched, firstFrame>>

(***************************************************************************)
(* Bounds of the model.                                                    *)
(***************************************************************************)
MaxLen == 6        \* longest caller-supplied data list
MaxPending == 1    \* frames the transport buffers for recv

(***************************************************************************)
(* Values.                                                                 *)
(***************************************************************************)
NoFrame == <<>>

Identifiers == {\h141, \h142}

\* data lists handed to the methods: the prefixes of 0x12 0x34 0x56 ... and
\* the list [0xAA, 0x01, 0x02]
PoolByte(i) == (\h12 + \h22 * (i - 1)) % 256

DataPool ==
    {[i \in 1..n |-> PoolByte(i)] : n \in 0..MaxLen} \cup {<<\hAA, \h01, \h02>>}

\* delays handed to send_cmd directly; time.sleep rejects a negative one
Delays == {-1, 0, 10}

NoArgOps ==
    {"read_pid", "read_acceleration", "read_encoder", "write_motor_zero_rom",
     "read_multi_turns_angle", "read_single_turn_angle", "motor_off",
     "motor_stop", "motor_run", "read_motor_status_1", "read_motor_status_2",
     "read_motor_status_3", "clear_motor_error_flag"}

DataOps ==
    {"write_pid_ram", "write_pid_rom", "write_acceleration_ram",
     "write_encoder_offset", "torque_closed_loop", "speed_closed_loop",
     "position_closed_loop_1", "position_closed_loop_2",
     "position_closed_loop_3", "position_closed_loop_4"}

Operations == NoArgOps \cup DataOps

(***************************************************************************)
(* The message each method builds.                                         *)
(***************************************************************************)
read_pid == <<\h30, 0, 0, 0, 0, 0, 0, 0>>

write_pid_ram(d) == <<\h31, 0, d[1], d[2], d[3], d[4], d[5], d[6]>>

write_pid_rom(d) == <<\h32, 0, d[1], d[2], d[3], d[4], d[5], d[6]>>

read_acceleration == <<\h33, 0, 0, 0, 0, 0, 0, 0>>

write_acceleration_ram(d) == <<\h34, 0, 0, 0, d[1], d[2], d[3], d[4]>>

read_encoder == <<\h90, 0, 0, 0, 0, 0, 0, 0>>

write_encoder_offset(d) == <<\h91, 0, 0, 0, 0, 0, d[1], d[2]>>

write_motor_zero_rom == <<\h19, 0, 0, 0, 0, 0, 0, 0>>

read_multi_turns_angle == <<\h92, 0, 0, 0, 0, 0, 0, 0>>

read_single_turn_angle == <<\h94, 0, 0, 0, 0, 0, 0, 0>>

motor_off == <<\h80, 0, 0, 0, 0, 0, 0, 0>>

motor_stop == <<\h81, 0, 0, 0, 0, 0, 0, 0>>

motor_run == <<\h88, 0, 0, 0, 0, 0, 0, 0>>

read_motor_status_1 == <<\h9A, 0, 0, 0, 0, 0, 0, 0>>

read_motor_status_2 == <<\h9C, 0, 0, 0, 0, 0, 0, 0>>

read_motor_status_3 == <<\h9D, 0, 0, 0, 0, 0, 0, 0>>

clear_motor_error_flag == <<\h9B, 0, 0, 0, 0, 0, 0, 0>>

torque_closed_loop(d) == <<\hA1, 0, 0, 0, d[1], d[2], 0, 0>>

speed_closed_loop(d) == <<\hA2, 0, 0, 0, d[1], d[2], d[3], d[4]>>

position_closed_loop_1(d) == <<\hA3, 0, 0, 0, d[1], d[2], d[3], d[4]>>

position_closed_loop_2(d) == <<\hA4, 0, d[1], d[2], d[3], d[4], d[5], d[6]>>

\* variant: data[0] written one byte too far
position_closed_loop_3_Shifted(d) == <<\hA5, 0, d[1], 0, d[2], d[3], 0, 0>>

position_closed_loop_3(d) == <<\hA5, d[1], 0, 0, d[2], d[3], 0, 0>>

\* variant: only four data bytes placed, byte 5 left zero
position_closed_loop_4_FourBytes(d) == <<\hA6, d[1], d[2], d[3], d[4], 0, 0, 0>>

position_closed_loop_4(d) == <<\hA6, d[1], d[2], d[3], d[4], d[5], 0, 0>>

\* the highest python index of `data` a method reads, plus one: a shorter
\* list raises IndexError while the message literal is evaluated
NeedLen(o) ==
    CASE o \in {"write_pid_ram", "write_pid_rom", "position_closed_loop_2"} -> 6
      [] o = "position_closed_loop_4" -> 5
      [] o \in {"write_acceleration_ram", "speed_closed_loop",
                "position_closed_loop_1"} -> 4
      [] o = "position_closed_loop_3" -> 3
      [] o \in {"write_encoder_offset", "torque_closed_loop"} -> 2
      [] OTHER -> 0

Message(o, d) ==
    CASE o = "read_pid" -> read_pid
      [] o = "write_pid_ram" -> write_pid_ram(d)
      [] o = "write_pid_rom" -> write_pid_rom(d)
      [] o = "read_acceleration" -> read_acceleration
      [] o = "write_acceleration_ram" -> write_acceleration_ram(d)
      [] o = "read_encoder" -> read_encoder
      [] o = "write_encoder_offset" -> write_encoder_offset(d)
      [] o = "write_motor_zero_rom" -> write_motor_zero_rom
      [] o = "read_multi_turns_angle" -> read_multi_turns_angle
      [] o = "read_single_turn_angle" -> read_single_turn_angle
      [] o = "motor_off" -> motor_off
      [] o = "motor_stop" -> motor_stop
      [] o = "motor_run" -> motor_run
      [] o = "read_motor_status_1" -> read_motor_status_1
      [] o = "read_motor_status_2" -> read_motor_status_2
      [] o = "read_motor_status_3" -> read_motor_status_3
      [] o = "clear_motor_error_flag" -> clear_motor_error_flag
      [] o = "torque_closed_loop" -> torque_closed_loop(d)
      [] o = "speed_closed_loop" -> speed_closed_loop(d)
      [] o = "position_closed_loop_1" -> position_closed_loop_1(d)
      [] o = "position_closed_loop_2" -> position_closed_loop_2(d)
      [] o = "position_closed_loop_3" -> position_closed_loop_3(d)
      [] o = "position_closed_loop_4" -> position_closed_loop_4(d)

\* the settle time every method passes to send_cmd (0.01 s)
OpDelay == 10

\* frames a caller hands to send_cmd directly
RawFrames == {read_pid, <<\h91, 0, 0, 0, 0, 0, \h12, \h34>>}

(***************************************************************************)
(* Outcomes of a call and events of its trace.                             *)
(***************************************************************************)
Pending == [kind |-> "pending"]
Returned(f) == [kind |-> "return", value |-> f]
Raised(e) == [kind |-> "raise", exc |-> e]

SendEvent(id, ext, f, ok, q) ==
    [ev |-> "send", arbitration_id |-> id, extended_id |-> ext,
     frame |-> f, ok |-> ok, pending |-> q]
SleepEvent(t) == [ev |-> "sleep", dur |-> t]
RecvEvent(f) == [ev |-> "recv", frame |-> f]

\* frames that reach the transport from the bus: a reply to read_pid and a
\* reply to read_motor_status_2 (replies echo the command byte)
InboundFrames == {<<\h30, 0, \h64, \h64, \h32, \h28, \h32, \h32>>,
                  <<\h9C, \h28, 0, 0, 0, 0, \h10, \h20>>}

\* the calls an observer may follow
Watched ==
    {[op |-> "read_pid", data |-> <<>>],
     [op |-> "write_encoder_offset", data |-> <<\h12, \h34>>],
     [op |-> "position_closed_loop_3", data |-> <<\hAA, \h01, \h02>>],
     [op |-> "position_closed_loop_4",
      data |-> <<\h12, \h34, \h56, \h78, \h9A>>]}

\* the observer looks at the call that just ended before the next one starts
Observe ==
    IF /\ firstFrame = NoFrame
       /\ watched = [op |-> op, data |-> data]
       /\ trace # <<>>
    THEN trace[1].frame
    ELSE firstFrame

(***************************************************************************)
(* Initial state: RMD_X8(identifier) just constructed.                     *)
(***************************************************************************)
Init ==
    /\ identifier \in Identifiers
    /\ ctorIdentifier = identifier
    /\ bus = "None"
    /\ pc = "idle"
    /\ op = "None"
    /\ data = <<>>
    /\ delay = 0
    /\ message = NoFrame
    /\ received_message = NoFrame
    /\ trace = <<>>
    /\ outcome = Pending
    /\ rxq = <<>>
    /\ watched \in Watched
    /\ firstFrame = NoFrame

(***************************************************************************)
(* setup(): bring the interface up and open the channel.  OSError exits    *)
(* the process; any other exception is printed and `self.bus = bus` then   *)
(* raises UnboundLocalError, leaving self.bus as it was.                   *)
(***************************************************************************)
setup ==
    /\ pc = "idle"
    /\ \E result \in {"ok", "OSError", "Exception"} :
          /\ bus' = IF result = "ok" THEN "can0" ELSE bus
          /\ pc' = IF result = "OSError" THEN "exited" ELSE "idle"
          /\ outcome' = CASE result = "ok" -> Returned(NoFrame)
                          [] result = "OSError" -> Raised("SystemExit")
                          [] OTHER -> Raised("UnboundLocalError")
    /\ op' = "setup"
    /\ data' = <<>>
    /\ message' = NoFrame
    /\ received_message' = NoFrame
    /\ trace' = <<>>
    /\ firstFrame' = Observe
    /\ UNCHANGED <<identifier, ctorIdentifier, delay, rxq, watched>>

\* variant: a short list is padded with zeros instead of raising
Call_PadShort ==
    /\ pc = "idle"
    /\ \E o \in Operations :
       \E d \in (IF o \in DataOps THEN DataPool ELSE {<<>>}) :
          /\ op' = o
          /\ data' = d
          /\ message' = Message(o, [i \in 1..8 |-> IF i <= Len(d) THEN d[i] ELSE 0])
    /\ outcome' = Pending
    /\ pc' = "send"
    /\ delay' = OpDelay
    /\ received_message' = NoFrame
    /\ trace' = <<>>
    /\ firstFrame' = Observe
    /\ UNCHANGED <<identifier, ctorIdentifier, bus, rxq, watched>>

\* variant: the message is written into a buffer kept between calls, and the
\* bytes the method leaves at zero keep what the last call put there
Call_SharedBuffer ==
    /\ pc = "idle"
    /\ \E o \in Operations :
       \E d \in (IF o \in DataOps THEN DataPool ELSE {<<>>}) :
          /\ op' = o
          /\ data' = d
          /\ IF Len(d) < NeedLen(o)
             THEN /\ message' = NoFrame
                  /\ outcome' = Raised("IndexError")
                  /\ pc' = "idle"
             ELSE /\ message' =
                        [i \in 1..8 |->
                            IF Message(o, d)[i] = 0 /\ message # NoFrame
                            THEN message[i] ELSE Message(o, d)[i]]
                  /\ outcome' = Pending
                  /\ pc' = "send"
    /\ delay' = OpDelay
    /\ received_message' = NoFrame
    /\ trace' = <<>>
    /\ firstFrame' = Observe
    /\ UNCHANGED <<identifier, ctorIdentifier, bus, rxq, watched>>

(***************************************************************************)
(* A high-level method is called: the message literal is evaluated, which  *)
(* raises IndexError on a short list, and send_cmd(message, 0.01) entered. *)
(***************************************************************************)
Call ==
    /\ pc = "idle"
    /\ \E o \in Operations :
       \E d \in (IF o \in DataOps THEN DataPool ELSE {<<>>}) :
          /\ op' = o
          /\ data' = d
          /\ IF Len(d) < NeedLen(o)
             THEN /\ message' = NoFrame
                  /\ outcome' = Raised("IndexError")
                  /\ pc' = "idle"
             ELSE /\ message' = Message(o, d)
                  /\ outcome' = Pending
                  /\ pc' = "send"
    /\ delay' = OpDelay
    /\ received_message' = NoFrame
    /\ trace' = <<>>
    /\ firstFrame' = Observe
    /\ UNCHANGED <<identifier, ctorIdentifier, bus, rxq, watched>>

(***************************************************************************)
(* send_cmd(data, delay) called directly by the application.               *)
(***************************************************************************)
send_cmd ==
    /\ pc = "idle"
    /\ \E f \in RawFrames, t \in Delays :
          /\ data' = f
          /\ message' = f
          /\ delay' = t
    /\ op' = "send_cmd"
    /\ outcome' = Pending
    /\ pc' = "send"
    /\ received_message' = NoFrame
    /\ trace' = <<>>
    /\ firstFrame' = Observe
    /\ UNCHANGED <<identifier, ctorIdentifier, bus, rxq, watched>>

\* variant: a missing bus is tolerated, the call returns None
BusSend_NoBusReturnsNone ==
    /\ pc = "send"
    /\ IF bus = "None"
       THEN /\ outcome' = Returned(NoFrame)
            /\ pc' = "idle"
            /\ UNCHANGED trace
       ELSE \E ok \in BOOLEAN :
               /\ trace' = Append(trace,
                      SendEvent(identifier, FALSE, message, ok, rxq))
               /\ IF ok
                  THEN /\ pc' = "sleep"
                       /\ UNCHANGED outcome
                  ELSE /\ pc' = "idle"
                       /\ outcome' = Raised("CanError")
    /\ UNCHANGED <<identifier, ctorIdentifier, bus, op, data, delay, message,
                   received_message, rxq, watched, firstFrame>>

\* variant: a failed transmit is caught and the exchange carries on
BusSend_Swallow ==
    /\ pc = "send"
    /\ IF bus = "None"
       THEN /\ outcome' = Raised("AttributeError")
            /\ pc' = "idle"
            /\ UNCHANGED trace
       ELSE \E ok \in BOOLEAN :
               /\ trace' = Append(trace,
                      SendEvent(identifier, FALSE, message, ok, rxq))
               /\ pc' = "sleep"
               /\ UNCHANGED outcome
    /\ UNCHANGED <<identifier, ctorIdentifier, bus, op, data, delay, message,
                   received_message, rxq, watched, firstFrame>>

\* variant: the frame is sent with extended addressing
BusSend_Extended ==
    /\ pc = "send"
    /\ IF bus = "None"
       THEN /\ outcome' = Raised("AttributeError")
            /\ pc' = "idle"
            /\ UNCHANGED trace
       ELSE \E ok \in BOOLEAN :
               /\ trace' = Append(trace,
                      SendEvent(identifier, TRUE, message, ok, rxq))
               /\ IF ok
                  THEN /\ pc' = "sleep"
                       /\ UNCHANGED outcome
                  ELSE /\ pc' = "idle"
                       /\ outcome' = Raised("CanError")
    /\ UNCHANGED <<identifier, ctorIdentifier, bus, op, data, delay, message,
                   received_message, rxq, watched, firstFrame>>

(***************************************************************************)
(* can.Message(arbitration_id=self.identifier, data=data,                  *)
(* extended_id=False); self.bus.send(message).  On a link without a bus    *)
(* the attribute lookup on None raises AttributeError; the transport may   *)
(* refuse the frame with can.CanError, which send_cmd does not catch.      *)
(***************************************************************************)
BusSend ==
    /\ pc = "send"
    /\ IF bus = "None"
       THEN /\ outcome' = Raised("AttributeError")
            /\ pc' = "idle"
            /\ UNCHANGED trace
       ELSE \E ok \in BOOLEAN :
               /\ trace' = Append(trace,
                      SendEvent(identifier, FALSE, message, ok, rxq))
               /\ IF ok
                  THEN /\ pc' = "sleep"
                       /\ UNCHANGED outcome
                  ELSE /\ pc' = "idle"
                       /\ outcome' = Raised("CanError")
    /\ UNCHANGED <<identifier, ctorIdentifier, bus, op, data, delay, message,
                   received_message, rxq, watched, firstFrame>>

\* variant: the receive follows the transmit without the settle delay
Sleep_Skipped ==
    /\ pc = "sleep"
    /\ pc' = "recv"
    /\ UNCHANGED <<identifier, ctorIdentifier, bus, op, data, delay, message,
                   received_message, trace, outcome, rxq, watched, firstFrame>>

(***************************************************************************)
(* time.sleep(delay): ValueError on a negative delay.                      *)
(***************************************************************************)
Sleep ==
    /\ pc = "sleep"
    /\ IF delay < 0
       THEN /\ outcome' = Raised("ValueError")
            /\ pc' = "idle"
            /\ UNCHANGED trace
       ELSE /\ trace' = Append(trace, SleepEvent(delay))
            /\ pc' = "recv"
            /\ UNCHANGED outcome
    /\ UNCHANGED <<identifier, ctorIdentifier, bus, op, data, delay, message,
                   received_message, rxq, watched, firstFrame>>

(***************************************************************************)
(* received_message = self.bus.recv(): the oldest buffered frame, or None  *)
(* when the transport gives up on an empty buffer.  While the transport    *)
(* blocks, the thread takes no step.                                       *)
(***************************************************************************)
BusRecv ==
    /\ pc = "recv"
    /\ IF rxq # <<>>
       THEN /\ received_message' = Head(rxq)
            /\ rxq' = Tail(rxq)
       ELSE /\ received_message' = NoFrame
            /\ UNCHANGED rxq
    /\ trace' = Append(trace, RecvEvent(received_message'))
    /\ pc' = "return"
    /\ UNCHANGED <<identifier, ctorIdentifier, bus, op, data, delay, message,
                   outcome, watched, firstFrame>>

\* variant: an empty receive is retried instead of returned
Return_RetryOnNone ==
    /\ pc = "return"
    /\ IF received_message = NoFrame
       THEN /\ pc' = "recv"
            /\ UNCHANGED outcome
       ELSE /\ outcome' = Returned(received_message)
            /\ pc' = "idle"
    /\ UNCHANGED <<identifier, ctorIdentifier, bus, op, data, delay, message,
                   received_message, trace, rxq, watched, firstFrame>>

\* variant: a reply whose command byte differs from the request is dropped
Return_Correlated ==
    /\ pc = "return"
    /\ outcome' = IF /\ received_message # NoFrame
                     /\ received_message[1] # message[1]
                  THEN Returned(NoFrame)
                  ELSE Returned(received_message)
    /\ pc' = "idle"
    /\ UNCHANGED <<identifier, ctorIdentifier, bus, op, data, delay, message,
                   received_message, trace, rxq, watched, firstFrame>>

(***************************************************************************)
(* return received_message (and the method returns send_cmd's result).     *)
(***************************************************************************)
Return ==
    /\ pc = "return"
    /\ outcome' = Returned(received_message)
    /\ pc' = "idle"
    /\ UNCHANGED <<identifier, ctorIdentifier, bus, op, data, delay, message,
                   received_message, trace, rxq, watched, firstFrame>>

(***************************************************************************)
(* A frame reaches the transport from the bus and is buffered for recv.    *)
(* The bus gives no timing guarantee: a reply may arrive late, after the   *)
(* call that asked for it has returned.                                    *)
(***************************************************************************)
Arrive ==
    /\ pc # "exited"
    /\ bus # "None"
    /\ Len(rxq) < MaxPending
    /\ \E f \in InboundFrames : rxq' = Append(rxq, f)
    /\ UNCHANGED <<identifier, ctorIdentifier, bus, pc, op, data, delay,
                   message, received_message, trace, outcome, watched,
                   firstFrame>>

Next ==
    \/ setup
    \/ Call
    \/ send_cmd
    \/ BusSend
    \/ Sleep
    \/ BusRecv
    \/ Return
    \/ Arrive

Spec == Init /\ [][Next]_vars

\* the calling thread is not preempted for ever: once bus.recv() has come
\* back, the return statement is executed
FairSpec == Spec /\ WF_vars(Return)

(***************************************************************************)
(* The command table of the protocol description: for each operation its   *)
(* opcode and, for frame bytes 1..7, the 1-based position in `data` of the *)
(* byte placed there (0: the byte is 0x00).                                *)
(***************************************************************************)
TableOpcode(o) ==
    CASE o = "read_pid" -> \h30
      [] o = "write_pid_ram" -> \h31
      [] o = "write_pid_rom" -> \h32
      [] o = "read_acceleration" -> \h33
      [] o = "write_acceleration_ram" -> \h34
      [] o = "read_encoder" -> \h90
      [] o = "write_encoder_offset" -> \h91
      [] o = "write_motor_zero_rom" -> \h19
      [] o = "read_multi_turns_angle" -> \h92
      [] o = "read_single_turn_angle" -> \h94
      [] o = "motor_off" -> \h80
      [] o = "motor_stop" -> \h81
      [] o = "motor_run" -> \h88
      [] o = "read_motor_status_1" -> \h9A
      [] o = "read_motor_status_2" -> \h9C
      [] o = "read_motor_status_3" -> \h9D
      [] o = "clear_motor_error_flag" -> \h9B
      [] o = "torque_closed_loop" -> \hA1
      [] o = "speed_closed_loop" -> \hA2
      [] o = "position_closed_loop_1" -> \hA3
      [] o = "position_closed_loop_2" -> \hA4
      [] o = "position_closed_loop_3" -> \hA5
      [] o = "position_closed_loop_4" -> \hA6

TablePlacement(o) ==
    CASE o \in {"write_pid_ram", "write_pid_rom", "position_closed_loop_2"}
            -> <<0, 1, 2, 3, 4, 5, 6>>
      [] o \in {"write_acceleration_ram", "speed_closed_loop",
                "position_closed_loop_1"} -> <<0, 0, 0, 1, 2, 3, 4>>
      [] o = "write_encoder_offset" -> <<0, 0, 0, 0, 0, 1, 2>>
      [] o = "torque_closed_loop" -> <<0, 0, 0, 1, 2, 0, 0>>
      [] o = "position_closed_loop_3" -> <<1, 0, 0, 2, 3, 0, 0>>
      [] o = "position_closed_loop_4" -> <<1, 2, 3, 4, 0, 0, 0>>
      [] OTHER -> <<0, 0, 0, 0, 0, 0, 0>>

\* the table with the one row that differs in the code: position_closed_loop_4
\* places five data bytes, at frame bytes 1..5
CodePlacement(o) ==
    IF o = "position_closed_loop_4" THEN <<1, 2, 3, 4, 5, 0, 0>>
    ELSE TablePlacement(o)

Max(S) == CHOOSE m \in S : \A x \in S : x <= m

\* number of data bytes a placement implies
ImpliedLen(place) == Max({place[i] : i \in 1..7})

\* the frame a placement prescribes for opcode c and data d
Placed(c, place, d) ==
    <<c>> \o [i \in 1..7 |-> IF place[i] = 0 THEN 0 ELSE d[place[i]]]

RaisedWith(e) == outcome.kind = "raise" /\ outcome.exc = e

\* a method call that got as far as handing its frame to the transport
\* or ended before that
PastSend == op \in Operations /\ pc # "send" /\ ~RaisedWith("AttributeError")

HandedFrame(f) ==
    /\ trace # <<>>
    /\ trace[1].ev = "send"
    /\ trace[1].frame = f
    /\ Len(trace[1].frame) = 8

(***************************************************************************)
(* C1 as stated: every operation of the table, called with a data list of  *)
(* the length its table row implies, hands the transport the 8-byte frame  *)
(* the row prescribes.                                                     *)
(***************************************************************************)
C1_AsClaimed ==
    (PastSend /\ Len(data) = ImpliedLen(TablePlacement(op)))
        => HandedFrame(Placed(TableOpcode(op), TablePlacement(op), data))

(***************************************************************************)
(* C1 amended: the same, with position_closed_loop_4 taking five data      *)
(* bytes placed at frame bytes 1..5; every operation called with a data    *)
(* list of the length its row then implies hands the transport exactly the *)
(* 8-byte frame of that row, all unlisted bytes 0x00.                      *)
(***************************************************************************)
C1_FrameMatchesTable ==
    (PastSend /\ Len(data) = ImpliedLen(CodePlacement(op)))
        => HandedFrame(Placed(TableOpcode(op), CodePlacement(op), data))

C1_Witness ==
    /\ op = "position_closed_loop_3"
    /\ data = <<\hAA, \h01, \h02>>
    /\ trace # <<>>
    /\ trace[1].ok
    /\ trace[1].frame = <<\hA5, \hAA, 0, 0, \h01, \h02, 0, 0>>

(***************************************************************************)
(* C2 as stated: position_closed_loop_4 with exactly four data bytes       *)
(* d0..d3 transmits [0xA6, d0, d1, d2, d3, 0, 0, 0].                       *)
(***************************************************************************)
C2_AsClaimed ==
    (PastSend /\ op = "position_closed_loop_4" /\ Len(data) = 4)
        => HandedFrame(<<\hA6, data[1], data[2], data[3], data[4], 0, 0, 0>>)

(***************************************************************************)
(* C2 amended: position_closed_loop_4 with five (or more) data bytes       *)
(* transmits [0xA6, d0, d1, d2, d3, d4, 0, 0]: bytes 1..5 carry data[0..4] *)
(* and bytes 6..7 are 0x00 whatever the caller passes; with exactly four   *)
(* data bytes it raises IndexError and hands the transport nothing.        *)
(***************************************************************************)
C2_FiveDataBytes ==
    (PastSend /\ op = "position_closed_loop_4")
        => /\ Len(data) >= 5 =>
                HandedFrame(<<\hA6, data[1], data[2], data[3], data[4],
                              data[5], 0, 0>>)
           /\ Len(data) = 4 => (RaisedWith("IndexError") /\ trace = <<>>)

C2_Witness ==
    /\ op = "position_closed_loop_4"
    /\ Len(data) = 5
    /\ trace # <<>>
    /\ trace[1].ok
    /\ trace[1].frame[6] = data[5]

(***************************************************************************)
(* C3: an operation whose table row needs N data bytes, called with fewer  *)
(* than N, ends with IndexError (the InvalidArgument outcome); that call   *)
(* transmits no frame and performs no receive.                             *)
(***************************************************************************)
C3_ShortDataRaises ==
    (op \in Operations /\ Len(data) < ImpliedLen(TablePlacement(op)))
        => (pc = "idle" /\ RaisedWith("IndexError") /\ trace = <<>>)

C3_Witness ==
    /\ bus = "can0"
    /\ op = "write_pid_ram"
    /\ Len(data) = 5
    /\ RaisedWith("IndexError")
    /\ trace = <<>>

(***************************************************************************)
(* C4 as stated: on a link whose bus is still None every call, send_cmd    *)
(* included, ends with AttributeError (the NotReady outcome), transmits    *)
(* nothing and leaves identifier and bus as they were.                     *)
(***************************************************************************)
C4_AsClaimed ==
    (bus = "None" /\ pc = "idle" /\ op \in Operations \cup {"send_cmd"})
        => /\ RaisedWith("AttributeError")
           /\ trace = <<>>
           /\ identifier = ctorIdentifier

(***************************************************************************)
(* C4 amended: on a link whose bus is still None every call transmits      *)
(* nothing and leaves identifier and bus as they were; it ends with        *)
(* AttributeError (NotReady) when its data list is long enough for the     *)
(* message, and with IndexError (InvalidArgument) when the list is too     *)
(* short, because the message is built before the bus is touched.          *)
(***************************************************************************)
C4_NoBusNoTransmit ==
    (bus = "None" /\ pc = "idle" /\ op \in Operations \cup {"send_cmd"})
        => /\ trace = <<>>
           /\ identifier = ctorIdentifier
           /\ outcome.kind = "raise"
           /\ outcome.exc =
                 IF /\ op \in Operations
                    /\ Len(data) < ImpliedLen(CodePlacement(op))
                 THEN "IndexError" ELSE "AttributeError"

C4_Witness ==
    /\ bus = "None"
    /\ pc = "idle"
    /\ op = "write_encoder_offset"
    /\ data = <<\h12, \h34>>
    /\ RaisedWith("AttributeError")

(***************************************************************************)
(* C5: every invocation of send_cmd on a link with a bus does, in this     *)
(* order, one transmit of the given frame, one sleep of the given delay    *)
(* and one receive; a call that has returned did all three, exactly once.  *)
(***************************************************************************)
C5_SendSleepRecv ==
    (op \in Operations \cup {"send_cmd"})
        => /\ Len(trace) <= 3
           /\ Len(trace) >= 1 =>
                (trace[1].ev = "send" /\ trace[1].frame = message)
           /\ Len(trace) >= 2 =>
                (trace[1].ok /\ trace[2].ev = "sleep" /\ trace[2].dur = delay)
           /\ Len(trace) >= 3 => trace[3].ev = "recv"
           /\ outcome.kind = "return" => Len(trace) = 3
           /\ op = "send_cmd" => message = data

C5_Witness ==
    /\ op = "send_cmd"
    /\ delay = 0
    /\ outcome.kind = "return"
    /\ Len(trace) = 3

(***************************************************************************)
(* C6: when the one receive of a call yields None, the call returns None:  *)
(* the next step of the thread is the return of None, with no further      *)
(* transmit or receive, and the thread does get there.                     *)
(***************************************************************************)
C6_NoReplyReturns ==
    /\ [][(pc = "return" /\ received_message = NoFrame /\ pc' # pc)
            => /\ pc' = "idle"
               /\ outcome' = Returned(NoFrame)
               /\ trace' = trace]_vars
    /\ [](pc = "return" => (trace # <<>> /\ trace[Len(trace)].ev = "recv"))
    /\ (pc = "return" /\ received_message = NoFrame)
          ~> (pc = "idle" /\ outcome = Returned(NoFrame))

C6_Witness ==
    /\ pc = "idle"
    /\ outcome.kind = "return"
    /\ Len(trace) = 3
    /\ trace[3].frame = NoFrame
    /\ outcome.value = NoFrame

(***************************************************************************)
(* C7: when the transport refuses the frame, the call ends with that       *)
(* CanError: the failed transmit is the only thing the call did, there is  *)
(* no second transmit, no receive and no returned frame.                   *)
(***************************************************************************)
C7_TransmitFailureSurfaces ==
    \A i \in 1..Len(trace) :
        (trace[i].ev = "send" /\ ~trace[i].ok)
            => (Len(trace) = 1 /\ pc = "idle" /\ RaisedWith("CanError"))

C7_Witness ==
    /\ op \in Operations
    /\ trace # <<>>
    /\ ~trace[1].ok
    /\ RaisedWith("CanError")

(***************************************************************************)
(* C8: whatever calls came in between, a later call of the watched         *)
(* operation with the watched arguments hands the transport the same frame *)
(* byte for byte as its first transmit did.                                *)
(***************************************************************************)
C8_SameCallSameFrame ==
    (firstFrame # NoFrame /\ watched = [op |-> op, data |-> data]
       /\ trace # <<>>)
        => trace[1].frame = firstFrame

C8_Witness ==
    /\ firstFrame # NoFrame
    /\ watched.op = "write_encoder_offset"
    /\ watched = [op |-> op, data |-> data]
    /\ trace # <<>>
    /\ trace[1].frame = firstFrame
    /\ rxq # <<>>

(***************************************************************************)
(* C9: self.identifier always equals the constructor's argument, and every *)
(* frame handed to the transport carries it as arbitration id, with        *)
(* standard (non-extended) addressing.                                     *)
(***************************************************************************)
C9_IdentifierFixed ==
    /\ identifier = ctorIdentifier
    /\ \A i \in 1..Len(trace) :
          trace[i].ev = "send"
            => /\ trace[i].arbitration_id = ctorIdentifier
               /\ trace[i].extended_id = FALSE

C9_Witness ==
    /\ ctorIdentifier = \h142
    /\ op = "torque_closed_loop"
    /\ outcome.kind = "return"
    /\ trace[1].ok
    /\ trace[1].arbitration_id = \h142
    /\ ~trace[1].extended_id

(***************************************************************************)
(* C10: a method that has returned did one exchange (transmit of its       *)
(* message, sleep of 10 ms, receive) and returned the received frame as it *)
(* came; when a frame was already buffered at the time of the transmit,    *)
(* that frame is what it returned, whatever its command byte.              *)
(***************************************************************************)
C10_ReturnsNextFrame ==
    (op \in Operations /\ outcome.kind = "return")
        => /\ Len(trace) = 3
           /\ trace[1].ev = "send" /\ trace[1].ok /\ trace[1].frame = message
           /\ trace[2].ev = "sleep" /\ trace[2].dur = 10
           /\ trace[3].ev = "recv"
           /\ outcome.value = trace[3].frame
           /\ trace[1].pending # <<>> => outcome.value = Head(trace[1].pending)

C10_Witness ==
    /\ op = "read_encoder"
    /\ outcome.kind = "return"
    /\ trace[1].pending # <<>>
    /\ outcome.value = Head(trace[1].pending)
    /\ outcome.value[1] # message[1]

====
